---- MODULE Spec2Model ----
(***************************************************************************)
(* A model of tini's Ini document (src/src/lib.rs): the builder chain      *)
(* (section / item / item_vec / items / clear / erase), iteration,         *)
(* Display, from_string and get_vec.                                       *)
(*                                                                         *)
(* Strings are sequences of one-character strings, so that formatting and  *)
(* parsing are computed character by character.  An OrderedHashMap is the  *)
(* sequence of its <<key, value>> entries in iteration order.              *)
(***************************************************************************)
EXTENDS Naturals, Sequences, FiniteSets

(***************************************************************************)
(* Bounds of the model and the inputs the calls are drawn from.            *)
(***************************************************************************)
MaxItems == 1

MaxLines == 5

LF == "\n"

SectionNames == { <<>>, <<"a">> }

Keys == { <<"k">>, <<"c">> }

Values == { <<"1">>, <<"2">> }

Pairs == Keys \X Values

SeqsUpTo(S, n) == UNION { [1..m -> S] : m \in 0..n }

ItemLists == SeqsUpTo(Pairs, MaxItems)

(***************************************************************************)
(* Option<T>                                                               *)
(***************************************************************************)
None == <<"None">>

Some(v) == <<"Some", v>>

(***************************************************************************)
(* OrderedHashMap<K, V> (module ordered_hashmap): the entries in           *)
(* insertion order.                                                        *)
(***************************************************************************)
map_new == <<>>

contains_key(m, k) == \E i \in 1..Len(m) : m[i][1] = k

position(m, k) == CHOOSE i \in 1..Len(m) : m[i][1] = k

map_get(m, k) == IF contains_key(m, k) THEN Some(m[position(m, k)][2]) ELSE None

map_insert(m, k, v) ==
    IF contains_key(m, k)
    THEN [m EXCEPT ![position(m, k)] = <<k, v>>]
    ELSE Append(m, <<k, v>>)

map_remove(m, k) == SelectSeq(m, LAMBDA e : e[1] # k)

entry_or_insert_with(m, k, default) ==
    IF contains_key(m, k) THEN m ELSE Append(m, <<k, default>>)

map_iter(m) == m

(***************************************************************************)
(* struct Ini { document, last_section_name, empty_section }               *)
(***************************************************************************)
empty_section == map_new

(* new() that selects a section named "a".                                 *)
new_selects == [document |-> map_new, last_section_name |-> <<"a">>]

new == [document |-> map_new, last_section_name |-> <<>>]

(* section() that creates the section it selects.                          *)
section_creates(self, name) ==
    [document |-> entry_or_insert_with(self.document, name, map_new), last_section_name |-> name]

(* section() that starts the section it selects afresh.                    *)
section_resets(self, name) ==
    [document |-> map_remove(self.document, name), last_section_name |-> name]

section(self, name) == [self EXCEPT !.last_section_name = name]

(* item() that removes the key before inserting it.                        *)
item_reinserts(self, name, value) ==
    LET doc == entry_or_insert_with(self.document, self.last_section_name, map_new)
        i   == position(doc, self.last_section_name)
    IN  [self EXCEPT !.document =
            [doc EXCEPT ![i] = <<self.last_section_name,
                                 map_insert(map_remove(doc[i][2], name), name, value)>>]]

(* item() that keeps the value of a key that is already there.             *)
item_keeps_value(self, name, value) ==
    LET doc == entry_or_insert_with(self.document, self.last_section_name, map_new)
        i   == position(doc, self.last_section_name)
    IN  [self EXCEPT !.document =
            [doc EXCEPT ![i] = <<self.last_section_name,
                                 IF contains_key(doc[i][2], name) THEN doc[i][2]
                                 ELSE map_insert(doc[i][2], name, value)>>]]

item(self, name, value) ==
    LET doc == entry_or_insert_with(self.document, self.last_section_name, map_new)
        i   == position(doc, self.last_section_name)
    IN  [self EXCEPT !.document =
            [doc EXCEPT ![i] = <<self.last_section_name, map_insert(doc[i][2], name, value)>>]]

RECURSIVE items(_, _)
items(self, list) ==
    IF list = <<>> THEN self
    ELSE items(item(self, Head(list)[1], Head(list)[2]), Tail(list))

(* clear() that empties the selected section and leaves it in the document. *)
clear_keeps_section(self) ==
    IF contains_key(self.document, self.last_section_name)
    THEN [self EXCEPT !.document =
             [self.document EXCEPT ![position(self.document, self.last_section_name)] =
                 <<self.last_section_name, map_new>>]]
    ELSE self

(* clear() that forgets the selected name.                                 *)
clear_deselects(self) ==
    [document |-> map_remove(self.document, self.last_section_name), last_section_name |-> <<>>]

clear(self) == [self EXCEPT !.document = map_remove(self.document, self.last_section_name)]

(* erase() that drops the section with its last key.                       *)
erase_drops_empty(self, key) ==
    IF contains_key(self.document, self.last_section_name)
    THEN LET i    == position(self.document, self.last_section_name)
             rest == map_remove(self.document[i][2], key)
         IN  IF rest = <<>>
             THEN [self EXCEPT !.document = map_remove(self.document, self.last_section_name)]
             ELSE [self EXCEPT !.document = [self.document EXCEPT ![i] = <<self.last_section_name, rest>>]]
    ELSE self

erase(self, key) ==
    IF contains_key(self.document, self.last_section_name)
    THEN LET i == position(self.document, self.last_section_name)
         IN  [self EXCEPT !.document =
                 [self.document EXCEPT ![i] = <<self.last_section_name, map_remove(self.document[i][2], key)>>]]
    ELSE self

get_raw(self, sec, key) ==
    IF contains_key(self.document, sec)
    THEN map_get(self.document[position(self.document, sec)][2], key)
    ELSE None

section_iter(self, sec) ==
    IF contains_key(self.document, sec)
    THEN map_iter(self.document[position(self.document, sec)][2])
    ELSE map_iter(empty_section)

iter(self) == map_iter(self.document)

(***************************************************************************)
(* impl fmt::Display for Ini                                               *)
(***************************************************************************)
RECURSIVE join(_, _)
join(v, sep) ==
    IF v = <<>> THEN <<>>
    ELSE IF Len(v) = 1 THEN v[1]
    ELSE v[1] \o sep \o join(Tail(v), sep)

(* pop() that leaves the last element.                                     *)
pop_nothing(v) == v

pop(v) == IF v = <<>> THEN v ELSE SubSeq(v, 1, Len(v) - 1)

format_header(name) == <<"[">> \o name \o <<"]">>

format_pair(key, value) == key \o <<" ", "=", " ">> \o value

RECURSIVE fmt_items(_)
fmt_items(sections) ==
    IF sections = <<>> THEN <<>>
    ELSE LET name == Head(sections)[1]
             sec  == Head(sections)[2]
         IN  << format_header(name) >>
             \o [j \in 1..Len(sec) |-> format_pair(sec[j][1], sec[j][2])]
             \o << <<>> >>
             \o fmt_items(Tail(sections))

to_string(self) == join(pop(fmt_items(iter(self))), <<LF>>)

(***************************************************************************)
(* Ini::item_vec_with_sep and Ini::item_vec for a vector of u8: the        *)
(* elements in decimal, joined by the separator, stored as one value.      *)
(***************************************************************************)
digit_char(d) ==
    CASE d = 0 -> "0" [] d = 1 -> "1" [] d = 2 -> "2" [] d = 3 -> "3" [] d = 4 -> "4"
      [] d = 5 -> "5" [] d = 6 -> "6" [] d = 7 -> "7" [] d = 8 -> "8" [] d = 9 -> "9"

RECURSIVE v_to_string(_)
v_to_string(v) ==
    IF v < 10 THEN << digit_char(v) >>
    ELSE v_to_string(v \div 10) \o << digit_char(v % 10) >>

item_vec_with_sep(self, name, vector, sep) ==
    LET vector_data == join([i \in 1..Len(vector) |-> v_to_string(vector[i])], sep)
        doc == entry_or_insert_with(self.document, self.last_section_name, map_new)
        i   == position(doc, self.last_section_name)
    IN  [self EXCEPT !.document =
            [doc EXCEPT ![i] = <<self.last_section_name, map_insert(doc[i][2], name, vector_data)>>]]

item_vec(self, name, vector) == item_vec_with_sep(self, name, vector, <<",", " ">>)

(***************************************************************************)
(* Line Parser (module parser): classify one line, given its 0-based       *)
(* index.  The separator is "=".                                           *)
(***************************************************************************)
is_whitespace(c) == c \in {" ", "\t"}

RECURSIVE trim_start(_)
trim_start(s) ==
    IF s # <<>> /\ is_whitespace(Head(s)) THEN trim_start(Tail(s)) ELSE s

RECURSIVE trim_end(_)
trim_end(s) ==
    IF s # <<>> /\ is_whitespace(s[Len(s)]) THEN trim_end(SubSeq(s, 1, Len(s) - 1)) ELSE s

trim(s) == trim_end(trim_start(s))

Ok(v) == [tag |-> "Ok", value |-> v, error |-> [index |-> 0, message |-> ""]]

Err(index, message) == [tag |-> "Err", value |-> <<>>, error |-> [index |-> index, message |-> message]]

Parsed(kind, name, value) == [kind |-> kind, name |-> name, value |-> value]

RECURSIVE find_from(_, _, _)
find_from(s, c, i) ==
    IF i > Len(s) THEN 0
    ELSE IF s[i] = c THEN i
    ELSE find_from(s, c, i + 1)

find(s, c) == find_from(s, c, 1)

unquote(v) ==
    IF Len(v) >= 2 /\ v[1] \in {"\"", "'"} /\ v[Len(v)] = v[1]
    THEN SubSeq(v, 2, Len(v) - 1)
    ELSE v

parse_line(line, index) ==
    LET content == trim(line) IN
    IF content = <<>> THEN Ok(Parsed("Empty", <<>>, <<>>))
    ELSE IF content[1] \in {";", "#"} THEN Ok(Parsed("Comment", <<>>, <<>>))
    ELSE IF content[1] = "["
    THEN LET name == trim(SubSeq(content, 2, Len(content) - 1)) IN
         IF content[Len(content)] = "]" /\ Len(content) >= 2 /\ name # <<>>
         THEN Ok(Parsed("Section", name, <<>>))
         ELSE Err(index, "invalid section header")
    ELSE LET sep == find(content, "=") IN
         IF sep = 0 THEN Err(index, "missing separator")
         ELSE LET key   == trim(SubSeq(content, 1, sep - 1))
                  value == unquote(trim(SubSeq(content, sep + 1, Len(content))))
              IN  IF key = <<>> THEN Err(index, "empty key")
                  ELSE Ok(Parsed("Value", key, value))

(***************************************************************************)
(* str::lines(): the pieces between line feeds, each without a carriage    *)
(* return at its end; a final empty piece is not a line.                   *)
(***************************************************************************)
RECURSIVE split(_, _)
split(s, c) ==
    LET i == find(s, c) IN
    IF i = 0 THEN << s >>
    ELSE << SubSeq(s, 1, i - 1) >> \o split(SubSeq(s, i + 1, Len(s)), c)

strip_cr(l) == IF l # <<>> /\ l[Len(l)] = "\r" THEN SubSeq(l, 1, Len(l) - 1) ELSE l

lines(s) ==
    LET pieces == split(s, LF)
        kept   == IF pieces[Len(pieces)] = <<>> THEN SubSeq(pieces, 1, Len(pieces) - 1) ELSE pieces
    IN  [i \in 1..Len(kept) |-> strip_cr(kept[i])]

(***************************************************************************)
(* Ini::parse and Ini::from_string                                         *)
(***************************************************************************)
(* parse() that skips a malformed line.                                    *)
RECURSIVE parse_loop_skips(_, _, _)
parse_loop_skips(result, ls, index) ==
    IF index >= Len(ls) THEN Ok(result)
    ELSE LET p == parse_line(ls[index + 1], index) IN
         IF p.tag = "Err" THEN parse_loop_skips(result, ls, index + 1)
         ELSE IF p.value.kind = "Section"
              THEN parse_loop_skips(section(result, p.value.name), ls, index + 1)
         ELSE IF p.value.kind = "Value"
              THEN parse_loop_skips(item(result, p.value.name, p.value.value), ls, index + 1)
         ELSE parse_loop_skips(result, ls, index + 1)

RECURSIVE parse_loop(_, _, _)
parse_loop(result, ls, index) ==
    IF index >= Len(ls) THEN Ok(result)
    ELSE LET p == parse_line(ls[index + 1], index) IN
         IF p.tag = "Err" THEN p
         ELSE IF p.value.kind = "Section"
              THEN parse_loop(section(result, p.value.name), ls, index + 1)
         ELSE IF p.value.kind = "Value"
              THEN parse_loop(item(result, p.value.name, p.value.value), ls, index + 1)
         ELSE parse_loop(result, ls, index + 1)

parse(string) == parse_loop(new, lines(string), 0)

from_string(buf) == parse(buf)

(***************************************************************************)
(* Ini::get_vec_with_sep::<u8>: x.split(sep).map(|s| s.trim().parse())     *)
(*                               .collect::<Result<Vec<u8>, _>>().ok()     *)
(* str::split on a non-empty pattern gives the pieces between its          *)
(* occurrences, found from the left and not overlapping; str::trim removes *)
(* white space at both ends; u8::from_str accepts an optional "+" and then *)
(* decimal digits of a value up to 255.                                    *)
(***************************************************************************)
RECURSIVE str_find_from(_, _, _)
str_find_from(s, pat, i) ==
    IF i + Len(pat) - 1 > Len(s) THEN 0
    ELSE IF SubSeq(s, i, i + Len(pat) - 1) = pat THEN i
    ELSE str_find_from(s, pat, i + 1)

RECURSIVE str_split(_, _)
str_split(s, pat) ==
    LET i == str_find_from(s, pat, 1) IN
    IF i = 0 THEN << s >>
    ELSE << SubSeq(s, 1, i - 1) >> \o str_split(SubSeq(s, i + Len(pat), Len(s)), pat)

White_Space == {" ", "\t", "\n", "\r"}

RECURSIVE str_trim_start(_)
str_trim_start(s) ==
    IF s # <<>> /\ Head(s) \in White_Space THEN str_trim_start(Tail(s)) ELSE s

RECURSIVE str_trim_end(_)
str_trim_end(s) ==
    IF s # <<>> /\ s[Len(s)] \in White_Space THEN str_trim_end(SubSeq(s, 1, Len(s) - 1)) ELSE s

str_trim(s) == str_trim_end(str_trim_start(s))

ParseIntError(kind) == [tag |-> "Err", kind |-> kind]

to_digit(c) ==
    CASE c = "0" -> 0 [] c = "1" -> 1 [] c = "2" -> 2 [] c = "3" -> 3 [] c = "4" -> 4
      [] c = "5" -> 5 [] c = "6" -> 6 [] c = "7" -> 7 [] c = "8" -> 8 [] c = "9" -> 9
      [] OTHER -> 10

u8_MAX == 255

RECURSIVE from_digits(_, _)
from_digits(digits, acc) ==
    IF digits = <<>> THEN Ok(acc)
    ELSE IF to_digit(Head(digits)) = 10 THEN ParseIntError("InvalidDigit")
    ELSE IF acc * 10 + to_digit(Head(digits)) > u8_MAX THEN ParseIntError("PosOverflow")
    ELSE from_digits(Tail(digits), acc * 10 + to_digit(Head(digits)))

from_str(src) ==
    IF src = <<>> THEN ParseIntError("Empty")
    ELSE IF Len(src) = 1 /\ src[1] \in {"+", "-"} THEN ParseIntError("InvalidDigit")
    ELSE from_digits(IF src[1] = "+" THEN Tail(src) ELSE src, 0)

(* collect() that leaves out the pieces that do not convert.               *)
RECURSIVE collect_converted(_)
collect_converted(results) ==
    IF results = <<>> THEN Ok(<<>>)
    ELSE LET rest == collect_converted(Tail(results)) IN
         IF Head(results).tag = "Err" THEN rest
         ELSE Ok(<< Head(results).value >> \o rest.value)

RECURSIVE collect(_)
collect(results) ==
    IF results = <<>> THEN Ok(<<>>)
    ELSE IF Head(results).tag = "Err" THEN Head(results)
    ELSE LET rest == collect(Tail(results)) IN
         IF rest.tag = "Err" THEN rest
         ELSE Ok(<< Head(results).value >> \o rest.value)

ok(r) == IF r.tag = "Ok" THEN Some(r.value) ELSE None

get_vec_with_sep(self, sec, key, sep) ==
    LET raw == get_raw(self, sec, key) IN
    IF raw = None THEN None
    ELSE LET pieces == str_split(raw[2], sep)
         IN  ok(collect([i \in 1..Len(pieces) |-> from_str(str_trim(pieces[i]))]))

get_vec(self, sec, key) == get_vec_with_sep(self, sec, key, <<",">>)

(***************************************************************************)
(* The texts from_string is called with: up to MaxLines of these lines,    *)
(* joined by line feeds.                                                   *)
(***************************************************************************)
InputLines == {
    <<"[", "a", "]">>,
    <<" ", "[", " ", "b", " ", "]">>,
    <<"k", " ", "=", " ", "1">>,
    <<"k", "=", "2">>,
    <<"c", " ", "=", " ", "1">>,
    <<"j", "u", "n", "k">>,
    <<";", "x">> }

Inputs == { join(ls, <<LF>>) : ls \in SeqsUpTo(InputLines, MaxLines) }

(***************************************************************************)
(* State: the Ini value threaded through the chain, the call that produced *)
(* it and the Ini value that call consumed; for from_string, the text it   *)
(* was given and the Result it returned; for get_vec and get_vec_with_sep, *)
(* the arguments and the Option returned.                                  *)
(***************************************************************************)
VARIABLES document, last_section_name, last_call, prev, input, result, got

vars == <<document, last_section_name, last_call, prev, input, result, got>>

self == [document |-> document, last_section_name |-> last_section_name]

Call(op, name, value, list) == [op |-> op, name |-> name, value |-> value, list |-> list]

(* No text: the program starts from Ini::new() and calls the builder.      *)
NoInput == <<"no input">>

NoResult == [tag |-> "None", value |-> <<>>, error |-> [index |-> 0, message |-> ""]]

Got(op, sec, key, sep, ret) == [op |-> op, section |-> sec, key |-> key, sep |-> sep, ret |-> ret]

NotCalled == Got("none", <<>>, <<>>, <<>>, None)

Returns(r, call) ==
    /\ document' = r.document
    /\ last_section_name' = r.last_section_name
    /\ last_call' = call
    /\ prev' = self
    /\ UNCHANGED <<input, result, got>>

Init ==
    /\ document = new.document
    /\ last_section_name = new.last_section_name
    /\ last_call = Call("new", <<>>, <<>>, <<>>)
    /\ prev = new
    /\ input \in Inputs \cup {NoInput}
    /\ result = NoResult
    /\ got = NotCalled

Section ==
    /\ input = NoInput
    /\ \E name \in SectionNames :
           Returns(section(self, name), Call("section", name, <<>>, <<>>))

Item ==
    /\ input = NoInput
    /\ \E name \in Keys, value \in Values :
           Returns(item(self, name, value), Call("item", name, value, <<>>))

Items ==
    /\ input = NoInput
    /\ \E list \in ItemLists :
           Returns(items(self, list), Call("items", <<>>, <<>>, list))

Clear ==
    /\ input = NoInput
    /\ Returns(clear(self), Call("clear", <<>>, <<>>, <<>>))

Erase ==
    /\ input = NoInput
    /\ \E key \in Keys :
           Returns(erase(self, key), Call("erase", key, <<>>, <<>>))

(* Ini::from_string(input) in place of Ini::new(): on Ok the caller holds  *)
(* the parsed Ini, on Err it holds no Ini at all.                          *)
FromString ==
    /\ input # NoInput
    /\ last_call.op = "new"
    /\ result' = from_string(input)
    /\ last_call' = Call("from_string", <<>>, <<>>, <<>>)
    /\ document' = IF result'.tag = "Ok" THEN result'.value.document ELSE document
    /\ last_section_name' = IF result'.tag = "Ok" THEN result'.value.last_section_name ELSE last_section_name
    /\ prev' = self
    /\ UNCHANGED <<input, got>>

Next == Section \/ Item \/ Items \/ Clear \/ Erase \/ FromString

Spec == Init /\ [][Next]_vars

(***************************************************************************)
(* The builder without erase(), with item_vec().  The vectors item_vec is  *)
(* called with: the empty one, and one whose elements have one and two     *)
(* digits.                                                                 *)
(***************************************************************************)
Vectors == { <<>>, <<1, 12>> }

ItemVec ==
    /\ input = NoInput
    /\ \E name \in Keys, vector \in Vectors :
           Returns(item_vec(self, name, vector), Call("item_vec", name, <<>>, vector))

NextNoErase == Section \/ Item \/ ItemVec \/ Items \/ Clear \/ FromString

SpecNoErase == Init /\ [][NextNoErase]_vars

(***************************************************************************)
(* Reading a vector.  The document is Ini::new().section(name).item(key,   *)
(* value) for a stored string of up to MaxStored characters; get_vec and   *)
(* get_vec_with_sep are then called with any section, key and separator.   *)
(***************************************************************************)
MaxStored == 4

StoredChars == { "2", "9", ",", " ", "-" }

StoredStrings == SeqsUpTo(StoredChars, MaxStored)

Seps == { <<",">>, <<",", " ">>, <<"-">> }

InitStored ==
    /\ \E name \in SectionNames, key \in Keys, value \in StoredStrings :
           /\ prev = section(new, name)
           /\ last_call = Call("item", key, value, <<>>)
           /\ document = item(prev, key, value).document
           /\ last_section_name = item(prev, key, value).last_section_name
    /\ input = NoInput
    /\ result = NoResult
    /\ got = NotCalled

GetVec ==
    /\ \E sec \in SectionNames, key \in Keys :
           got' = Got("get_vec", sec, key, <<",">>, get_vec(self, sec, key))
    /\ UNCHANGED <<document, last_section_name, last_call, prev, input, result>>

GetVecWithSep ==
    /\ \E sec \in SectionNames, key \in Keys, sep \in Seps :
           got' = Got("get_vec_with_sep", sec, key, sep, get_vec_with_sep(self, sec, key, sep))
    /\ UNCHANGED <<document, last_section_name, last_call, prev, input, result>>

NextGetVec == GetVec \/ GetVecWithSep

SpecGetVec == InitStored /\ [][NextGetVec]_vars

(***************************************************************************)
(* Vocabulary of the properties.                                           *)
(***************************************************************************)
BuilderOps == {"section", "item", "items", "clear", "erase"}

AfterCall(op) == last_call.op = op

AfterBuilderCall == last_call.op \in BuilderOps

Has(s, x) == \E i \in 1..Len(s) : s[i] = x

Idx(s, x) == CHOOSE i \in 1..Len(s) : s[i] = x /\ \A j \in 1..(i - 1) : s[j] # x

NoDup(s) == \A i, j \in 1..Len(s) : s[i] = s[j] => i = j

Elems(s) == { s[i] : i \in 1..Len(s) }

(* What iteration yields: the section names of iter(), the keys of         *)
(* section_iter(sec).                                                      *)
YieldedSections(ini) == [i \in 1..Len(iter(ini)) |-> iter(ini)[i][1]]

YieldedKeys(ini, sec) ==
    [i \in 1..Len(section_iter(ini, sec)) |-> section_iter(ini, sec)[i][1]]

(* What Display yields: a header line gives a section, a `key = value`     *)
(* line gives a key, a blank line gives nothing.                           *)
DisplayedLines(ini) == SelectSeq(lines(to_string(ini)), LAMBDA l : l # <<>>)

DisplayedToken(l) ==
    IF l[1] = "[" THEN <<"section", SubSeq(l, 2, Len(l) - 1)>>
    ELSE <<"key", SubSeq(l, 1, find(l, " ") - 1)>>

Displayed(ini) == [i \in 1..Len(DisplayedLines(ini)) |-> DisplayedToken(DisplayedLines(ini)[i])]

RECURSIVE IteratedTokens(_, _)
IteratedTokens(ini, names) ==
    IF names = <<>> THEN <<>>
    ELSE << <<"section", Head(names)>> >>
         \o [i \in 1..Len(YieldedKeys(ini, Head(names))) |-> <<"key", YieldedKeys(ini, Head(names))[i]>>]
         \o IteratedTokens(ini, Tail(names))

(* The keys a call inserts, in the order it inserts them.                  *)
CallKeys(call) ==
    IF call.op = "item" THEN << call.name >>
    ELSE IF call.op = "items" THEN [i \in 1..Len(call.list) |-> call.list[i][1]]
    ELSE <<>>

SurvivorsKeepOrder(old, now) ==
    \A x, y \in Elems(old) :
        (Has(now, x) /\ Has(now, y)) => ((Idx(old, x) < Idx(old, y)) <=> (Idx(now, x) < Idx(now, y)))

InsertedComeLast(old, now) ==
    \A i, j \in 1..Len(now) : (~Has(old, now[i]) /\ Has(old, now[j])) => j < i

InsertedInCallOrder(old, now, inserted) ==
    \A x, y \in Elems(now) \ Elems(old) :
        /\ Has(inserted, x)
        /\ (Idx(now, x) < Idx(now, y)) <=> (Idx(inserted, x) < Idx(inserted, y))

MostRecentInsertionOrder(old, now, inserted) ==
    /\ NoDup(now)
    /\ SurvivorsKeepOrder(old, now)
    /\ InsertedComeLast(old, now)
    /\ InsertedInCallOrder(old, now, inserted)

(***************************************************************************)
(* C1: after every builder call, iteration (iter, section_iter, Display)   *)
(* yields the sections, and the keys of each section, in the order of      *)
(* their most recent insertion: names that were there before the call keep *)
(* their relative order (an overwrite does not move a key), names the call *)
(* inserted follow them in the order of insertion (so a section re-created *)
(* after clear() is the last one), a name leaves the iteration only by the *)
(* clear() or erase() that removes it and is not yielded afterwards, and   *)
(* Display lists the same names in the same order as the iterators.        *)
(***************************************************************************)
C1_InsertionOrder ==
    AfterBuilderCall =>
        LET old == YieldedSections(prev)
            now == YieldedSections(self)
            sec == prev.last_section_name
        IN  /\ MostRecentInsertionOrder(old, now, IF CallKeys(last_call) = <<>> THEN <<>> ELSE << sec >>)
            /\ \A n \in Elems(now) :
                   MostRecentInsertionOrder(YieldedKeys(prev, n), YieldedKeys(self, n),
                                            IF n = sec THEN CallKeys(last_call) ELSE <<>>)
            /\ \A n \in Elems(old) \ Elems(now) : AfterCall("clear") /\ n = sec
            /\ \A n \in Elems(old) \cap Elems(now) :
                   \A k \in Elems(YieldedKeys(prev, n)) \ Elems(YieldedKeys(self, n)) :
                       AfterCall("erase") /\ n = sec /\ k = last_call.name
            /\ AfterCall("clear") => ~Has(now, sec)
            /\ AfterCall("erase") => ~Has(YieldedKeys(self, sec), last_call.name)
            /\ Displayed(self) = IteratedTokens(self, now)

(* A section that was not in the document is created by item() behind an   *)
(* older section, and a key that was not in its section is inserted behind *)
(* an older key.                                                           *)
C1_Witness ==
    /\ AfterCall("item")
    /\ Len(prev.document) = 1
    /\ YieldedSections(self) = << prev.document[1][1], last_section_name >>
    /\ prev.document[1][1] # last_section_name
    /\ Len(prev.document[1][2]) = 2

(***************************************************************************)
(* C2: item(k, v2) on a key that is present in the current section         *)
(* replaces its value and nothing else: every section keeps its position   *)
(* and name, every entry keeps its position and key, the entry of k holds  *)
(* v2 and every other entry its old value; item(k, v) on a key that is     *)
(* absent (as after erase(k)) puts the entry at the end of the section.    *)
(***************************************************************************)
C2_UpdateInPlace ==
    AfterCall("item") =>
        LET sec == prev.last_section_name
            k   == last_call.name
            v   == last_call.value
        IN  /\ last_section_name = sec
            /\ Has(YieldedKeys(prev, sec), k) =>
                   /\ Len(document) = Len(prev.document)
                   /\ \A i \in 1..Len(document) :
                          /\ document[i][1] = prev.document[i][1]
                          /\ Len(document[i][2]) = Len(prev.document[i][2])
                          /\ \A j \in 1..Len(document[i][2]) :
                                 /\ document[i][2][j][1] = prev.document[i][2][j][1]
                                 /\ document[i][2][j][2] =
                                        IF document[i][1] = sec /\ document[i][2][j][1] = k
                                        THEN v ELSE prev.document[i][2][j][2]
                   /\ Cardinality({ j \in 1..Len(section_iter(self, sec)) : section_iter(self, sec)[j][1] = k }) = 1
            /\ ~Has(YieldedKeys(prev, sec), k) =>
                   section_iter(self, sec) = Append(section_iter(prev, sec), <<k, v>>)

(* The overwritten key is the first of two keys and held another value.    *)
C2_Witness ==
    /\ AfterCall("item")
    /\ Len(section_iter(prev, last_section_name)) = 2
    /\ section_iter(prev, last_section_name)[1][1] = last_call.name
    /\ section_iter(prev, last_section_name)[1][2] # last_call.value
    /\ section_iter(self, last_section_name)[1] = <<last_call.name, last_call.value>>
    /\ Len(document) = 2

(***************************************************************************)
(* C7: to_string() is, for each section in insertion order, the line       *)
(* `[name]` followed by one line `key = value` per key in insertion order, *)
(* with exactly one blank line between consecutive sections and no line    *)
(* feed at the end; the empty document gives the empty string.             *)
(***************************************************************************)
RECURSIVE CanonicalPairs(_)
CanonicalPairs(sec) ==
    IF sec = <<>> THEN <<>>
    ELSE <<LF>> \o Head(sec)[1] \o <<" ", "=", " ">> \o Head(sec)[2] \o CanonicalPairs(Tail(sec))

CanonicalSection(entry) == <<"[">> \o entry[1] \o <<"]">> \o CanonicalPairs(entry[2])

RECURSIVE CanonicalText(_)
CanonicalText(doc) ==
    IF doc = <<>> THEN <<>>
    ELSE IF Len(doc) = 1 THEN CanonicalSection(doc[1])
    ELSE CanonicalSection(doc[1]) \o <<LF, LF>> \o CanonicalText(Tail(doc))

C7_CanonicalSerialization ==
    LET text == to_string(self) IN
    /\ text = CanonicalText(document)
    /\ document = <<>> => text = <<>>
    /\ text # <<>> => text[Len(text)] # LF
    /\ \A i \in 1..Len(text) : (i + 2 <= Len(text) /\ text[i] = LF /\ text[i + 1] = LF) => text[i + 2] = "["

(* Two sections, the first with two keys.                                  *)
C7_Witness ==
    /\ Len(document) = 2
    /\ Len(document[1][2]) = 2
    /\ Len(document[2][2]) = 1
    /\ Len(lines(to_string(self))) = 6

(***************************************************************************)
(* C8: section(name) only selects the section the next calls act on: the   *)
(* document and its serialization are those before the call, a name that   *)
(* was not a section of the document still is none, and the selected name  *)
(* is a section of the document after item().                              *)
(***************************************************************************)
C8_SectionSelectsOnly ==
    /\ AfterCall("section") =>
           /\ last_section_name = last_call.name
           /\ document = prev.document
           /\ to_string(self) = to_string(prev)
           /\ \A n \in SectionNames : Has(YieldedSections(self), n) <=> Has(YieldedSections(prev), n)
    /\ AfterCall("item") =>
           /\ last_section_name = prev.last_section_name
           /\ Has(YieldedSections(self), last_section_name)

(* section() has selected a name that is no section of a non-empty         *)
(* document.                                                               *)
C8_Witness ==
    /\ AfterCall("section")
    /\ document # <<>>
    /\ prev.last_section_name # last_section_name
    /\ ~Has(YieldedSections(self), last_section_name)

(***************************************************************************)
(* C9: clear() removes exactly the selected section: the other sections,   *)
(* their contents and their order are unchanged, the selected name is      *)
(* unchanged, clear() of a name that is no section changes nothing, and    *)
(* item() on a name that is no section (as after clear()) creates a        *)
(* section holding only the new key.                                       *)
(***************************************************************************)
C9_ClearFrame ==
    /\ AfterCall("clear") =>
           LET sec == prev.last_section_name IN
           /\ last_section_name = sec
           /\ ~Has(YieldedSections(self), sec)
           /\ document = SelectSeq(prev.document, LAMBDA e : e[1] # sec)
           /\ ~Has(YieldedSections(prev), sec) => document = prev.document
    /\ (AfterCall("item") /\ ~Has(YieldedSections(prev), prev.last_section_name)) =>
           section_iter(self, last_section_name) = << <<last_call.name, last_call.value>> >>

(* clear() has removed the first of two sections.                          *)
C9_Witness ==
    /\ AfterCall("clear")
    /\ Len(prev.document) = 2
    /\ prev.document[1][1] = last_section_name
    /\ prev.document[1][2] # <<>>
    /\ document = << prev.document[2] >>

(***************************************************************************)
(* C10: erase(key) removes exactly the entry `key` of the selected         *)
(* section: the other keys of the section keep their values and order,     *)
(* every other section is unchanged, the section names and their order are *)
(* unchanged, and erase() changes nothing when the section or the key is   *)
(* absent.                                                                 *)
(***************************************************************************)
C10_EraseFrame ==
    AfterCall("erase") =>
        LET sec == prev.last_section_name
            k   == last_call.name
        IN  /\ last_section_name = sec
            /\ YieldedSections(self) = YieldedSections(prev)
            /\ \A n \in Elems(YieldedSections(prev)) :
                   section_iter(self, n) =
                       IF n = sec THEN SelectSeq(section_iter(prev, n), LAMBDA e : e[1] # k)
                       ELSE section_iter(prev, n)
            /\ (~Has(YieldedSections(prev), sec) \/ ~Has(YieldedKeys(prev, sec), k)) =>
                   document = prev.document

(* erase() has removed the first of two keys while another section exists. *)
C10_Witness ==
    /\ AfterCall("erase")
    /\ Len(document) = 2
    /\ Len(section_iter(prev, last_section_name)) = 2
    /\ section_iter(prev, last_section_name)[1][1] = last_call.name
    /\ section_iter(self, last_section_name) = << section_iter(prev, last_section_name)[2] >>

(***************************************************************************)
(* C3: for a document built by builder calls, from_string(to_string())     *)
(* succeeds and yields the same sections in the same order with the same   *)
(* keys, in the same order, and the same values.  Stated for the documents *)
(* all of whose sections have a non-empty name, which are among the        *)
(* documents of the claim.                                                 *)
(***************************************************************************)
C3_RoundTrip ==
    (AfterBuilderCall /\ ~Has(YieldedSections(self), <<>>)) =>
        LET reparsed == from_string(to_string(self)) IN
        /\ reparsed.tag = "Ok"
        /\ reparsed.value.document = document

(***************************************************************************)
(* The lines of the text given to from_string, as the line parser          *)
(* classifies them, and the section each line falls in.                    *)
(***************************************************************************)
Classified ==
    LET ls == lines(input) IN [i \in 1..Len(ls) |-> parse_line(ls[i], i - 1)]

Malformed(ev, i) == ev[i].tag = "Err"

IsHeader(ev, i) == ev[i].tag = "Ok" /\ ev[i].value.kind = "Section"

IsPair(ev, i) == ev[i].tag = "Ok" /\ ev[i].value.kind = "Value"

HeaderBefore(ev, i) == { h \in 1..(i - 1) : IsHeader(ev, h) }

Least(S) == CHOOSE x \in S : \A y \in S : x <= y

Greatest(S) == CHOOSE x \in S : \A y \in S : y <= x

SectionOfLine(ev, i) ==
    IF HeaderBefore(ev, i) = {} THEN <<>> ELSE ev[Greatest(HeaderBefore(ev, i))].value.name

PairLines(ev, sec) == { i \in 1..Len(ev) : IsPair(ev, i) /\ SectionOfLine(ev, i) = sec }

PairLinesOf(ev, sec, key) == { i \in PairLines(ev, sec) : ev[i].value.name = key }

Reopened(ev, sec) == \E g, h \in 1..Len(ev) :
    g < h /\ IsHeader(ev, g) /\ IsHeader(ev, h) /\ ev[g].value.name = sec /\ ev[h].value.name = sec

(***************************************************************************)
(* C4, as claimed: when the text contains a malformed line, parsing goes   *)
(* on with the following lines and the parsed document holds the           *)
(* key-value pair of every well-formed line.                               *)
(***************************************************************************)
C4_ContinuesAfterError ==
    AfterCall("from_string") =>
        LET ev == Classified IN
        (\E i \in 1..Len(ev) : Malformed(ev, i)) =>
            /\ result.tag = "Ok"
            /\ \A i \in 1..Len(ev) : IsPair(ev, i) =>
                   get_raw(result.value, SectionOfLine(ev, i), ev[i].value.name) # None

(***************************************************************************)
(* C4, amended: when the text contains a malformed line, from_string       *)
(* returns a parse error that references the 0-based index of the first    *)
(* malformed line and returns no document, whatever the lines before and   *)
(* after it hold; a text without a malformed line yields a document.       *)
(***************************************************************************)
C4_FailsAtFirstError ==
    AfterCall("from_string") =>
        LET ev  == Classified
            bad == { i \in 1..Len(ev) : Malformed(ev, i) }
        IN  IF bad # {}
            THEN /\ result.tag = "Err"
                 /\ result.error.index = Least(bad) - 1
                 /\ result.value = <<>>
                 /\ document = prev.document
            ELSE result.tag = "Ok"

(* A header, then a malformed line, then a well-formed key-value line.     *)
C4_Witness ==
    /\ AfterCall("from_string")
    /\ Len(Classified) = 3
    /\ IsHeader(Classified, 1) /\ Malformed(Classified, 2) /\ IsPair(Classified, 3)
    /\ result.tag = "Err"
    /\ result.error.index = 1

C6_UnnamedSection ==
    /\ AfterCall("from_string") =>
           LET ev == Classified IN
           \A i \in 1..Len(ev) : (IsPair(ev, i) /\ HeaderBefore(ev, i) = {}) =>
               /\ (\A j \in 1..Len(ev) : ~Malformed(ev, j)) => result.tag = "Ok"
               /\ result.tag = "Ok" =>
                      /\ YieldedSections(self)[1] = <<>>
                      /\ get_raw(self, <<>>, ev[i].value.name)
                             = Some(ev[Greatest(PairLinesOf(ev, <<>>, ev[i].value.name))].value.value)
    /\ (AfterCall("item") /\ prev = new) =>
           document = << << <<>>, << <<last_call.name, last_call.value>> >> >> >>

(* A key-value line, then a header with a key-value line of its own.       *)
C6_Witness ==
    /\ AfterCall("from_string")
    /\ Len(Classified) = 3
    /\ IsPair(Classified, 1) /\ IsHeader(Classified, 2) /\ IsPair(Classified, 3)
    /\ result.tag = "Ok"
    /\ Len(document) = 2
    /\ document[1][1] = <<>>

(***************************************************************************)
(* Vocabulary of the properties of get_vec.                                *)
(***************************************************************************)
AfterGetVec == got.op \in {"get_vec", "get_vec_with_sep"}

(* The string stored for the section and key that were asked for.          *)
IsStored(sec, key) ==
    \E i \in 1..Len(document) :
        document[i][1] = sec /\ \E j \in 1..Len(document[i][2]) : document[i][2][j][1] = key

Stored(sec, key) ==
    LET i == CHOOSE i \in 1..Len(document) : document[i][1] = sec
        j == CHOOSE j \in 1..Len(document[i][2]) : document[i][2][j][1] = key
    IN  document[i][2][j][2]

(* Its pieces between the separators, each without the white space at its  *)
(* ends.                                                                   *)
Pieces(stored, sep) ==
    LET parts == str_split(stored, sep) IN [i \in 1..Len(parts) |-> str_trim(parts[i])]

Converts(piece) == from_str(piece).tag = "Ok"

Converted(piece) == from_str(piece).value

(***************************************************************************)
(* C11: get_vec (separator ",") and get_vec_with_sep are all-or-nothing.   *)
(* The call returns Some(vector) exactly when the section and the key      *)
(* exist and every piece of the stored string (split on the separator,     *)
(* each piece trimmed) converts to u8; the vector then holds the converted *)
(* pieces in order, one per piece.  If the section or the key is absent,   *)
(* or any one piece does not convert, the call returns None.  The call     *)
(* does not change the document.                                           *)
(***************************************************************************)
C11_GetVecAllOrNothing ==
    AfterGetVec =>
        /\ got.op = "get_vec" => got.sep = <<",">>
        /\ IF ~IsStored(got.section, got.key) THEN got.ret = None
           ELSE LET stored == Stored(got.section, got.key)
                    pieces == Pieces(stored, got.sep)
                IN  /\ join(str_split(stored, got.sep), got.sep) = stored
                    /\ IF \A i \in 1..Len(pieces) : Converts(pieces[i])
                       THEN got.ret = Some([i \in 1..Len(pieces) |-> Converted(pieces[i])])
                       ELSE got.ret = None
        /\ got.ret # None => \A i \in 1..Len(got.ret[2]) : got.ret[2][i] \in 0..u8_MAX
        /\ document = item(prev, last_call.name, last_call.value).document

(* The stored string has three pieces, the first and the last convert and  *)
(* the one between them does not: nothing is returned.                     *)
C11_Witness ==
    /\ AfterGetVec
    /\ IsStored(got.section, got.key)
    /\ LET pieces == Pieces(Stored(got.section, got.key), got.sep)
       IN  /\ Len(pieces) = 3
           /\ Converts(pieces[1]) /\ ~Converts(pieces[2]) /\ Converts(pieces[3])
    /\ got.ret = None

(***************************************************************************)
(* Vocabulary of the properties of the builder without erase().            *)
(***************************************************************************)
IsHeaderLine(l) == l # <<>> /\ l[1] = "["

IsKeyLine(l) == l # <<>> /\ l[1] # "[" /\ find(l, "=") > 1

HeadersHaveKeyLines(text) ==
    LET ls == lines(text) IN
    \A i \in 1..Len(ls) : IsHeaderLine(ls[i]) => (i < Len(ls) /\ IsKeyLine(ls[i + 1]))

(***************************************************************************)
(* C12: without erase(), no section is present empty.  In every document   *)
(* reached from Ini::new() by section, item, item_vec, items and clear     *)
(* calls, and in every document returned by from_string, each section in   *)
(* the document holds at least one key-value pair, and in the text of      *)
(* Display every section header is followed by a key line.                 *)
(***************************************************************************)
C12_NoEmptySection ==
    /\ \A i \in 1..Len(document) : Len(document[i][2]) >= 1
    /\ \A name \in SectionNames : contains_key(document, name) => section_iter(self, name) # <<>>
    /\ HeadersHaveKeyLines(to_string(self))
    /\ result.tag = "Ok" => \A i \in 1..Len(result.value.document) : Len(result.value.document[i][2]) >= 1

(* item_vec() with the empty vector creates its section behind another     *)
(* one: the new section holds the key, with the empty string as value.     *)
C12_Witness ==
    /\ AfterCall("item_vec")
    /\ last_call.list = <<>>
    /\ Len(prev.document) = 1
    /\ ~contains_key(prev.document, last_section_name)
    /\ Len(document) = 2
    /\ document[2] = << last_section_name, << << last_call.name, <<>> >> >> >>

====
